---------------------------- MODULE Spec2Model ----------------------------
(***************************************************************************)
(* modusGraphGen: the struct-tag parser (parser/parser.go) and the         *)
(* inference pass (parser/inference.go) that build a model.Package from    *)
(* the struct declarations of a Go package.                                *)
(*                                                                         *)
(* A Go string is a sequence of one-character strings, so that HasPrefix,  *)
(* slicing, Fields, Split and TrimSpace are computed on the characters.    *)
(***************************************************************************)
EXTENDS Integers, Sequences, FiniteSets, TLC

\* ------------------------------------------------------------------ bounds

\* Most subtokens of a generated dgraph tag.
MaxSubtokens == 3

\* Most fields besides UID and DType of a struct drawn from the short list.
MaxBodyFields == 2

\* Most top-level declarations of a generated package.
MaxDecls == 3

\* ------------------------------------------------------------ Go strings

kEmpty == <<>>
kPredicateEq == <<"p", "r", "e", "d", "i", "c", "a", "t", "e", "=">>
kIndexEq == <<"i", "n", "d", "e", "x", "=">>
kTypeEq == <<"t", "y", "p", "e", "=">>
kReverse == <<"r", "e", "v", "e", "r", "s", "e">>
kCount == <<"c", "o", "u", "n", "t">>
kUpsert == <<"u", "p", "s", "e", "r", "t">>
kTilde == <<"~">>

\* unicode.IsSpace on the characters the inputs use
IsSpace(c) == c \in {" ", "\t"}

\* strings.HasPrefix
HasPrefix(s, prefix) ==
    /\ Len(s) >= Len(prefix)
    /\ SubSeq(s, 1, Len(prefix)) = prefix

\* the slice expression s[n:]
SliceFrom(s, n) == SubSeq(s, n + 1, Len(s))

\* strings.Index of a one-character separator: 0 when absent
IndexOf(s, c) ==
    IF \E i \in 1..Len(s) : s[i] = c
    THEN CHOOSE i \in 1..Len(s) : s[i] = c /\ \A j \in 1..(i - 1) : s[j] # c
    ELSE 0

\* strings.Split(s, sep) for a one-character sep: n+1 pieces for n separators
RECURSIVE Split(_, _)
Split(s, sep) ==
    LET i == IndexOf(s, sep)
    IN  IF i = 0 THEN <<s>>
        ELSE <<SubSeq(s, 1, i - 1)>> \o Split(SliceFrom(s, i), sep)

\* strings.TrimSpace
RECURSIVE TrimSpace(_)
TrimSpace(s) ==
    IF s = <<>> THEN s
    ELSE IF IsSpace(s[1]) THEN TrimSpace(Tail(s))
    ELSE IF IsSpace(s[Len(s)]) THEN TrimSpace(SubSeq(s, 1, Len(s) - 1))
    ELSE s

\* strings.Fields: the maximal runs of non-space characters, in order
\* a variant that does not split at white space
FieldsWhole(s) == IF s = <<>> THEN <<>> ELSE <<s>>

RECURSIVE Fields(_)
Fields(s) ==
    IF s = <<>> THEN <<>>
    ELSE IF IsSpace(s[1]) THEN Fields(Tail(s))
    ELSE LET stops == {i \in 1..Len(s) : IsSpace(s[i])}
             end == IF stops = {} THEN Len(s) + 1
                    ELSE CHOOSE i \in stops : \A j \in stops : i <= j
         IN  <<SubSeq(s, 1, end - 1)>> \o Fields(SliceFrom(s, end - 1))

\* ---------------------------------------------------------------- model.Field

ZeroField ==
    [Name |-> kEmpty, GoType |-> kEmpty, JSONTag |-> kEmpty,
     Predicate |-> kEmpty, IsEdge |-> FALSE, EdgeEntity |-> kEmpty,
     IsReverse |-> FALSE, HasCount |-> FALSE, Indexes |-> <<>>,
     TypeHint |-> kEmpty, IsUID |-> FALSE, IsDType |-> FALSE,
     OmitEmpty |-> FALSE, Upsert |-> FALSE]

\* ------------------------------------------------------- parseDgraphTag
\* The loop state of parseDgraphTag is s = [field, inIndex]; each operator
\* below is one branch of the body of the inner loop.

\* a variant that reads the reverse marker off the predicate
onPredicateTilde(s, tok) ==
    LET v == SliceFrom(tok, Len(kPredicateEq))
    IN  [field |-> [s.field EXCEPT
                      !.Predicate = v,
                      !.IsReverse = IF HasPrefix(v, kTilde) THEN TRUE ELSE @],
         inIndex |-> FALSE]

onPredicate(s, tok) ==
    [field |-> [s.field EXCEPT !.Predicate = SliceFrom(tok, Len(kPredicateEq))],
     inIndex |-> FALSE]

\* a variant that keeps Indexes free of duplicates
onIndexDedup(s, tok) ==
    LET v == SliceFrom(tok, Len(kIndexEq))
    IN  [field |-> IF \E i \in 1..Len(s.field.Indexes) : s.field.Indexes[i] = v
                   THEN s.field
                   ELSE [s.field EXCEPT !.Indexes = Append(@, v)],
         inIndex |-> TRUE]

onIndex(s, tok) ==
    [field |-> [s.field EXCEPT
                  !.Indexes = Append(@, SliceFrom(tok, Len(kIndexEq)))],
     inIndex |-> TRUE]

\* a variant in which the first type= of a tag wins
onTypeFirst(s, tok) ==
    [field |-> IF s.field.TypeHint = kEmpty
               THEN [s.field EXCEPT !.TypeHint = SliceFrom(tok, Len(kTypeEq))]
               ELSE s.field,
     inIndex |-> FALSE]

\* a variant in which the type hint is taken for an index as well
onTypeLeaks(s, tok) ==
    [field |-> [s.field EXCEPT !.TypeHint = SliceFrom(tok, Len(kTypeEq)),
                               !.Indexes = Append(@, SliceFrom(tok, Len(kTypeEq)))],
     inIndex |-> FALSE]

onType(s, tok) ==
    [field |-> [s.field EXCEPT !.TypeHint = SliceFrom(tok, Len(kTypeEq))],
     inIndex |-> FALSE]

\* the reverse flag read and not recorded
onReverseOff(s) == [s EXCEPT !.inIndex = FALSE]

onReverse(s) ==
    [field |-> [s.field EXCEPT !.IsReverse = TRUE], inIndex |-> FALSE]

\* a variant in which a second count switches the flag off again
onCountToggle(s) ==
    [field |-> [s.field EXCEPT !.HasCount = ~@], inIndex |-> FALSE]

onCount(s) ==
    [field |-> [s.field EXCEPT !.HasCount = TRUE], inIndex |-> FALSE]

onUpsert(s) ==
    [field |-> [s.field EXCEPT !.Upsert = TRUE], inIndex |-> FALSE]

onDefault(s, tok) ==
    IF s.inIndex
    THEN [s EXCEPT !.field.Indexes = Append(@, tok)]
    ELSE s

\* which branch of the loop body a (trimmed) subtoken takes
TokKind(tok) ==
    IF tok = kEmpty THEN "empty"
    ELSE IF HasPrefix(tok, kPredicateEq) THEN "predicate"
    ELSE IF HasPrefix(tok, kIndexEq) THEN "index"
    ELSE IF HasPrefix(tok, kTypeEq) THEN "type"
    ELSE IF tok = kReverse THEN "reverse"
    ELSE IF tok = kCount THEN "count"
    ELSE IF tok = kUpsert THEN "upsert"
    ELSE "default"

\* one pass of the inner loop body on the raw subtoken
tokStep(s, raw) ==
    LET tok == TrimSpace(raw)
        kind == TokKind(tok)
    IN  CASE kind = "empty" -> s
          [] kind = "predicate" -> onPredicate(s, tok)
          [] kind = "index" -> onIndex(s, tok)
          [] kind = "type" -> onType(s, tok)
          [] kind = "reverse" -> onReverse(s)
          [] kind = "count" -> onCount(s)
          [] kind = "upsert" -> onUpsert(s)
          [] OTHER -> onDefault(s, tok)

\* the inner loop over the subtokens of one directive
RECURSIVE tokLoop(_, _)
tokLoop(s, toks) ==
    IF toks = <<>> THEN s
    ELSE tokLoop(tokStep(s, Head(toks)), Tail(toks))

\* a variant with inIndex declared outside the loop over the directives
directiveStartCarry(f, prevInIndex) == [field |-> f, inIndex |-> prevInIndex]

\* line 254: inIndex := false, whatever the previous directive left
directiveStart(f, prevInIndex) == [field |-> f, inIndex |-> FALSE]

\* the outer loop over the directives
RECURSIVE directiveLoop(_, _)
directiveLoop(s, dirs) ==
    IF dirs = <<>> THEN s
    ELSE directiveLoop(
            tokLoop(directiveStart(s.field, s.inIndex), Split(Head(dirs), ",")),
            Tail(dirs))

parseDgraphTag(tag, f) ==
    directiveLoop([field |-> f, inIndex |-> FALSE], Fields(tag)).field

\* ------------------------------------------------------------ more strings

kUID == <<"U", "I", "D">>
kDType == <<"D", "T", "y", "p", "e">>
kString == <<"s", "t", "r", "i", "n", "g">>
kSliceString == <<"[", "]">> \o kString
kSlice == <<"[", "]">>
kArray == <<"[", ".", ".", ".", "]">>
kStar == <<"*">>
kMapOpen == <<"m", "a", "p", "[">>
kMapClose == <<"]">>
kDot == <<".">>
kOmitEmpty == <<"o", "m", "i", "t", "e", "m", "p", "t", "y">>
kFulltext == <<"f", "u", "l", "l", "t", "e", "x", "t">>

UpperLetters ==
    {"A", "B", "C", "D", "E", "F", "G", "H", "I", "J", "K", "L", "M",
     "N", "O", "P", "Q", "R", "S", "T", "U", "V", "W", "X", "Y", "Z"}

\* ast.IsExported: the name begins with an upper-case letter
IsExported(name) == name # kEmpty /\ name[1] \in UpperLetters

\* strings.Contains
Contains(s, sub) ==
    \E i \in 0..(Len(s) - Len(sub)) : SubSeq(s, i + 1, i + Len(sub)) = sub

\* strings.SplitN(s, ",", 2): at most two pieces, cut at the first comma
SplitN2(s) ==
    LET i == IndexOf(s, ",")
    IN  IF i = 0 THEN <<s>>
        ELSE <<SubSeq(s, 1, i - 1), SliceFrom(s, i)>>

\* ------------------------------------------------------------- typeString
\* A type expression of the syntax tree is a record with a kind:
\*   Ident(name), Selector(x, sel), Array(hasLen, elt), Star(x),
\*   Map(key, value), and any other node, which carries the text that
\*   fmt.Sprintf("%T", expr) gives for it (goT).

RECURSIVE typeString(_)
typeString(expr) ==
    CASE expr.kind = "Ident" -> expr.name
      [] expr.kind = "Selector" ->
            IF expr.x.kind = "Ident"
            THEN expr.x.name \o kDot \o expr.sel
            ELSE expr.sel
      [] expr.kind = "Array" ->
            IF ~expr.hasLen
            THEN kSlice \o typeString(expr.elt)
            ELSE kArray \o typeString(expr.elt)
      [] expr.kind = "Star" -> kStar \o typeString(expr.x)
      [] expr.kind = "Map" ->
            kMapOpen \o typeString(expr.key) \o kMapClose \o typeString(expr.value)
      [] OTHER -> expr.goT

\* ------------------------------------------------------------- parseStruct
\* A field declaration of the syntax tree is
\*   [Names: the declared names, Type: the type expression,
\*    Tag: [present, json, dgraph]],
\* where json and dgraph are what reflect.StructTag.Get returns for the two
\* keys ("" when the key is absent).

\* lines 125-129: the Field starts with the name and the type only
newField(fieldName, goType) ==
    [ZeroField EXCEPT !.Name = fieldName, !.GoType = goType]

\* lines 137-144: the json tag
parseJSONTag(f, jsonTag) ==
    IF jsonTag = kEmpty THEN f
    ELSE LET parts == SplitN2(jsonTag)
         IN  [f EXCEPT
                !.JSONTag = parts[1],
                !.OmitEmpty = IF Len(parts) > 1 /\ Contains(parts[2], kOmitEmpty)
                              THEN TRUE ELSE @]

\* lines 147-150: the dgraph tag
applyDgraphTag(f, dgraphTag) ==
    IF dgraphTag = kEmpty THEN f ELSE parseDgraphTag(dgraphTag, f)

\* lines 125-151: the new Field with its struct tags parsed
fieldFromTags(decl) ==
    LET f0 == newField(decl.Names[1], typeString(decl.Type))
    IN  IF decl.Tag.present
        THEN applyDgraphTag(parseJSONTag(f0, decl.Tag.json), decl.Tag.dgraph)
        ELSE f0

\* a variant that takes every field named UID for the UID
detectUIDAnyType(f) ==
    IF f.Name = kUID THEN [f EXCEPT !.IsUID = TRUE] ELSE f

\* lines 154-157
detectUID(f) ==
    IF f.Name = kUID /\ f.GoType = kString THEN [f EXCEPT !.IsUID = TRUE] ELSE f

\* lines 158-161
detectDType(f) ==
    IF f.Name = kDType /\ f.GoType = kSliceString
    THEN [f EXCEPT !.IsDType = TRUE] ELSE f

\* a variant in which the json name wins over the directive
resolvePredicateJSONFirst(f) ==
    IF f.JSONTag # kEmpty THEN [f EXCEPT !.Predicate = f.JSONTag] ELSE f

\* lines 164-166
resolvePredicate(f) ==
    IF f.Predicate = kEmpty THEN [f EXCEPT !.Predicate = f.JSONTag] ELSE f

\* a variant that takes every slice for an edge
detectEdgeAnySlice(f, names) ==
    IF HasPrefix(f.GoType, kSlice)
    THEN [f EXCEPT !.IsEdge = TRUE, !.EdgeEntity = SliceFrom(f.GoType, 2)]
    ELSE f

\* a variant that records the element type of every slice
detectEdgeTarget(f, names) ==
    IF HasPrefix(f.GoType, kSlice)
    THEN [f EXCEPT !.IsEdge = SliceFrom(f.GoType, 2) \in names,
                   !.EdgeEntity = SliceFrom(f.GoType, 2)]
    ELSE f

\* lines 169-175
detectEdge(f, names) ==
    IF HasPrefix(f.GoType, kSlice) /\ SliceFrom(f.GoType, 2) \in names
    THEN [f EXCEPT !.IsEdge = TRUE, !.EdgeEntity = SliceFrom(f.GoType, 2)]
    ELSE f

\* a variant without the prefix check
detectReverseOff(f) == f

\* lines 178-180
detectReverse(f) ==
    IF HasPrefix(f.Predicate, kTilde) THEN [f EXCEPT !.IsReverse = TRUE] ELSE f

\* lines 153-180: what follows the tags, in the order of the code
resolveField(f, names) ==
    detectReverse(detectEdge(resolvePredicate(detectDType(detectUID(f))), names))

\* lines 117-123: an embedded field or an unexported first name is skipped
skipsField(decl) ==
    IF Len(decl.Names) = 0 THEN TRUE ELSE ~IsExported(decl.Names[1])

\* the loop state of parseStruct is [fields, hasUID, hasDType]
\* a variant with the Field declared outside the loop over the fields: what
\* the tags of the previous field set is still there
fieldStepCarry(ps, decl, names) ==
    IF skipsField(decl) THEN ps
    ELSE LET fresh == fieldFromTags(decl)
             prev == IF ps.fields = <<>> THEN ZeroField
                     ELSE ps.fields[Len(ps.fields)]
             f0 == IF decl.Tag.present /\ decl.Tag.dgraph # kEmpty THEN fresh
                   ELSE [fresh EXCEPT !.Indexes = prev.Indexes,
                                      !.TypeHint = prev.TypeHint,
                                      !.HasCount = prev.HasCount,
                                      !.Upsert = prev.Upsert]
             f == resolveField(f0, names)
         IN  [fields |-> Append(ps.fields, f),
              hasUID |-> ps.hasUID \/ f.IsUID,
              hasDType |-> ps.hasDType \/ f.IsDType]

\* a variant that takes a field for the UID or the DType by its name alone
fieldStepByName(ps, decl, names) ==
    IF skipsField(decl) THEN ps
    ELSE LET f == resolveField(fieldFromTags(decl), names)
         IN  [fields |-> Append(ps.fields, f),
              hasUID |-> ps.hasUID \/ f.Name = kUID,
              hasDType |-> ps.hasDType \/ f.Name = kDType]

fieldStep(ps, decl, names) ==
    IF skipsField(decl) THEN ps
    ELSE LET f == resolveField(fieldFromTags(decl), names)
         IN  [fields |-> Append(ps.fields, f),
              hasUID |-> ps.hasUID \/ f.IsUID,
              hasDType |-> ps.hasDType \/ f.IsDType]

RECURSIVE fieldLoop(_, _, _)
fieldLoop(ps, decls, names) ==
    IF decls = <<>> THEN ps
    ELSE fieldLoop(fieldStep(ps, Head(decls), names), Tail(decls), names)

ZeroEntity ==
    [Name |-> kEmpty, Fields |-> <<>>, Searchable |-> FALSE,
     SearchField |-> kEmpty]

\* ---------------------------------------------------------- applyInference

isStringType(goType) == goType = kString

hasIndex(indexes, name) == \E i \in 1..Len(indexes) : indexes[i] = name

\* the condition of line 342 on a field the loop did not skip
isSearchField(f) == isStringType(f.GoType) /\ hasIndex(f.Indexes, kFulltext)

\* a variant without the break: the last match wins
RECURSIVE inferLoopLast(_, _)
inferLoopLast(e, i) ==
    IF i > Len(e.Fields) THEN e
    ELSE LET f == e.Fields[i]
         IN  IF ~(f.IsUID \/ f.IsDType) /\ isStringType(f.GoType)
                /\ hasIndex(f.Indexes, kFulltext)
             THEN inferLoopLast([e EXCEPT !.Searchable = TRUE,
                                          !.SearchField = f.Name], i + 1)
             ELSE inferLoopLast(e, i + 1)

\* a variant that does not skip the UID and DType fields
RECURSIVE inferLoopNoSkip(_, _)
inferLoopNoSkip(e, i) ==
    IF i > Len(e.Fields) THEN e
    ELSE LET f == e.Fields[i]
         IN  IF isSearchField(f)
             THEN [e EXCEPT !.Searchable = TRUE, !.SearchField = f.Name]
             ELSE inferLoopNoSkip(e, i + 1)

\* the loop of applyInference from field i on
RECURSIVE inferLoop(_, _)
inferLoop(e, i) ==
    IF i > Len(e.Fields) THEN e
    ELSE LET f == e.Fields[i]
         IN  IF f.IsUID \/ f.IsDType THEN inferLoop(e, i + 1)
             ELSE IF isSearchField(f)
             THEN [e EXCEPT !.Searchable = TRUE, !.SearchField = f.Name]
             ELSE inferLoop(e, i + 1)

\* a variant that also prunes the edges that point at another type
applyInferencePrune(e) ==
    LET r == inferLoop(e, 1)
    IN  [r EXCEPT !.Fields =
            SelectSeq(r.Fields, LAMBDA f : ~f.IsEdge \/ f.EdgeEntity = e.Name)]

applyInference(e) == inferLoop(e, 1)

\* lines 185-197: the struct is an entity only with both fields seen
structResult(name, ps) ==
    IF ~ps.hasUID \/ ~ps.hasDType
    THEN [entity |-> ZeroEntity, isEntity |-> FALSE]
    ELSE [entity |-> applyInference([ZeroEntity EXCEPT !.Name = name,
                                                       !.Fields = ps.fields]),
          isEntity |-> TRUE]

ZeroLoop == [fields |-> <<>>, hasUID |-> FALSE, hasDType |-> FALSE]

parseStruct(name, decls, names) ==
    structResult(name, fieldLoop(ZeroLoop, decls, names))

\* --------------------------------------------------------------- Parse
\* A file is the sequence of its top-level declarations.  A declaration is
\*   [isGen: it is an *ast.GenDecl, tok: "type" | "var" | "import",
\*    specs: its specs],
\* and a spec is [isTypeSpec, name, isStruct, fields].

kTestSuffix == <<"_", "t", "e", "s", "t">>

\* strings.HasSuffix
HasSuffix(s, suffix) ==
    /\ Len(s) >= Len(suffix)
    /\ SubSeq(s, Len(s) - Len(suffix) + 1, Len(s)) = suffix

\* lines 88-90 and 52-54: only type declarations are looked at
isTypeDecl(decl) == decl.isGen /\ decl.tok = "type"

\* lines 92-101: the exported struct names among the specs of a declaration
RECURSIVE specNames(_)
specNames(specs) ==
    IF specs = <<>> THEN {}
    ELSE LET sp == Head(specs)
         IN  (IF sp.isTypeSpec /\ sp.isStruct /\ IsExported(sp.name)
              THEN {sp.name} ELSE {}) \cup specNames(Tail(specs))

\* lines 87-103: the declarations of one file, in order
RECURSIVE collectDecls(_)
collectDecls(decls) ==
    IF decls = <<>> THEN {}
    ELSE (IF isTypeDecl(Head(decls)) THEN specNames(Head(decls).specs) ELSE {})
         \cup collectDecls(Tail(decls))

\* a single-pass variant: only what is declared up to declaration j of the
\* current file is known when that declaration is resolved
passTwoNamesSoFar(collected, decls, j) == collectDecls(SubSeq(decls, 1, j))

\* line 69: the name set handed to parseStruct for declaration j of a file
\* is the whole set that the first pass collected
passTwoNames(collected, decls, j) == collected

\* lines 56-73: the entities of the specs of one declaration, in order
RECURSIVE specEntities(_, _)
specEntities(specs, names) ==
    IF specs = <<>> THEN <<>>
    ELSE LET sp == Head(specs)
             rest == specEntities(Tail(specs), names)
         IN  IF sp.isTypeSpec /\ sp.isStruct /\ IsExported(sp.name)
             THEN LET r == parseStruct(sp.name, sp.fields, names)
                  IN  IF r.isEntity THEN <<r.entity>> \o rest ELSE rest
             ELSE rest

\* lines 51-74: one iteration of the loop over file.Decls
declEntities(decl, names) ==
    IF isTypeDecl(decl) THEN specEntities(decl.specs, names) ELSE <<>>

NoPackage == [isNil |-> TRUE, Name |-> kEmpty, Entities |-> <<>>]
NoResult == [pkg |-> NoPackage, err |-> "unset"]

\* ------------------------------------------------- inputs: dgraph tags

sPredG == kPredicateEq \o <<"g">>
sPredTildeG == kPredicateEq \o <<"~", "g">>
sIndexH == kIndexEq \o <<"h">>
sTypeT == kTypeEq \o <<"t">>
sH == <<"h">>
sCountEq1 == kCount \o <<"=", "1">>
sTypeU == kTypeEq \o <<"u">>

\* the subtokens a generated tag is made of: every keyword, one bare word,
\* the empty subtoken and one key=value whose key is no keyword
SubTokens ==
    {sPredG, sPredTildeG, sIndexH, sTypeT, kReverse, kCount, kUpsert,
     sH, kEmpty, sCountEq1}

\* what joins two subtokens
Seps == {<<" ">>, <<",">>}

RECURSIVE Join(_, _)
Join(subs, seps) ==
    IF Len(subs) = 1 THEN subs[1]
    ELSE subs[1] \o seps[1] \o Join(Tail(subs), Tail(seps))

\* tags that give type= twice, with the same and with different values
RepeatTags ==
    {a \o sep \o b : a \in {sTypeT, sTypeU}, b \in {sTypeT, sTypeU}, sep \in Seps}

\* the tags of n subtokens
TagsOf(n) ==
    {Join(subs, seps) : subs \in [1..n -> SubTokens],
                        seps \in [1..(n - 1) -> Seps]}

\* the tags of at most n subtokens
RECURSIVE TagsUpTo(_)
TagsUpTo(n) ==
    IF n = 0 THEN {kEmpty} \cup RepeatTags ELSE TagsOf(n) \cup TagsUpTo(n - 1)

TagInputs == TagsUpTo(MaxSubtokens)

\* ------------------------------------------- inputs: field declarations

Ident(name) == [kind |-> "Ident", name |-> name]
Selector(x, sel) == [kind |-> "Selector", x |-> x, sel |-> sel]
SliceOf(elt) == [kind |-> "Array", hasLen |-> FALSE, elt |-> elt]
ArrayOf(elt) == [kind |-> "Array", hasLen |-> TRUE, elt |-> elt]
Star(x) == [kind |-> "Star", x |-> x]
MapOf(key, value) == [kind |-> "Map", key |-> key, value |-> value]
FuncType ==
    [kind |-> "Func",
     goT |-> <<"*", "a", "s", "t", ".", "F", "u", "n", "c", "T", "y", "p", "e">>]

nA == <<"A">>
nB == <<"B">>
nX == <<"X">>
nInt == <<"i", "n", "t">>
tString == Ident(kString)
tTime == Selector(Ident(<<"t", "i", "m", "e">>), <<"T", "i", "m", "e">>)

NoTag == [present |-> FALSE, json |-> kEmpty, dgraph |-> kEmpty]
Tags(json, dgraph) == [present |-> TRUE, json |-> json, dgraph |-> dgraph]
Decl(names, type, t) == [Names |-> names, Type |-> type, Tag |-> t]

jN == <<"n">>
jNOmit == <<"n", ",">> \o kOmitEmpty
jTildeN == <<"~", "n">>
jNXOmit == <<"n", ",", "x">> \o kOmitEmpty
jNStringOmit == <<"n", ",", "s", ",">> \o kOmitEmpty
sIndexFulltext == kIndexEq \o kFulltext

\* the declared names and types a struct field is drawn from
NameTypes ==
    {<<(<<(<<"N", "a", "m", "e">>)>>), tString>>,
     <<(<<(<<"T", "s">>)>>), SliceOf(tString)>>,
     <<(<<(<<"B", "s">>)>>), SliceOf(Ident(nB))>>,
     <<(<<(<<"A", "s">>)>>), SliceOf(Ident(nA))>>,
     <<(<<(<<"X", "s">>)>>), SliceOf(Ident(nX))>>,
     <<(<<(<<"R", "e", "f">>)>>), Ident(nB)>>,
     <<(<<(<<"P", "s">>)>>), SliceOf(Star(Ident(nB)))>>,
     <<(<<(<<"P">>)>>), Star(Ident(nB))>>,
     <<(<<(<<"A", "t">>)>>), tTime>>,
     <<(<<(<<"M">>)>>), MapOf(tString, Ident(nB))>>,
     <<(<<(<<"A", "r", "r">>)>>), ArrayOf(Ident(nB))>>,
     <<(<<(<<"F", "n">>)>>), FuncType>>,
     <<(<<kUID>>), tString>>,
     <<(<<kUID>>), Ident(nInt)>>,
     <<(<<kDType>>), SliceOf(tString)>>,
     <<(<<kDType>>), tString>>,
     <<(<<(<<"n", "a", "m", "e">>)>>), tString>>,
     <<(<<>>), Ident(nB)>>,
     <<(<<(<<"I", "D">>), kUID>>), tString>>,
     <<(<<kUID, (<<"I", "D">>)>>), tString>>}

\* the struct tags a field is drawn from: none, json only, dgraph only, both
TagChoices ==
    {NoTag,
     Tags(jNOmit, kEmpty),
     Tags(jNXOmit, kEmpty),
     Tags(jNStringOmit, kEmpty),
     Tags(jN, sIndexH \o <<",">> \o kFulltext),
     Tags(jN, sPredG \o <<",">> \o kReverse \o <<",">> \o kCount),
     Tags(jN, sPredTildeG),
     Tags(jTildeN, kEmpty),
     Tags(jN, kPredicateEq),
     Tags(kEmpty, kReverse),
     Tags(kEmpty, sPredG \o <<" ">> \o sIndexFulltext),
     Tags(jTildeN, sPredG),
     Tags(jN, sPredTildeG \o <<" ">> \o sPredG),
     Tags(jN, sPredG \o <<",">> \o kPredicateEq),
     Tags(jN, sPredTildeG \o <<" ">> \o kReverse)}

FieldDecls == {Decl(nt[1], nt[2], t) : nt \in NameTypes, t \in TagChoices}

\* ------------------------------------------------------ inputs: structs

RECURSIVE SeqsUpTo(_, _)
\* the sequences over S of length at most n
SeqsUpTo(S, n) ==
    IF n = 0 THEN {<<>>}
    ELSE LET shorter == SeqsUpTo(S, n - 1)
         IN  shorter \cup {Append(q, x) : q \in {r \in shorter : Len(r) = n - 1},
                                          x \in S}

jUid == <<"u", "i", "d">>
jDt == <<"d", "t">>
dUID == Decl(<<kUID>>, tString, Tags(jUid, kEmpty))
dUIDFulltext == Decl(<<kUID>>, tString, Tags(jUid, sIndexFulltext))
dUIDInt == Decl(<<kUID>>, Ident(nInt), Tags(jUid, kEmpty))
dIDUID == Decl(<<(<<"I", "D">>), kUID>>, tString, Tags(jUid, kEmpty))
dUIDID == Decl(<<kUID, (<<"I", "D">>)>>, tString, Tags(jUid, kEmpty))
dDType == Decl(<<kDType>>, SliceOf(tString), Tags(jDt, kEmpty))
dDTypeFulltext == Decl(<<kDType>>, SliceOf(tString), Tags(jDt, sIndexFulltext))

\* which of the UID and DType declarations a struct has, and in what order
Headers ==
    {<<>>, <<dUID>>, <<dDType>>, <<dUID, dDType>>, <<dDType, dUID>>,
     <<dUIDFulltext, dDTypeFulltext>>, <<dUIDInt, dDType>>, <<dIDUID, dDType>>,
     <<dUIDID, dDType>>}

dName ==
    Decl(<<(<<"N", "a", "m", "e">>)>>, tString,
         Tags(jN, sIndexH \o <<",">> \o kFulltext))
dTitle ==
    Decl(<<(<<"T", "i", "t", "l", "e">>)>>, tString, Tags(kEmpty, sIndexFulltext))
dTs == Decl(<<(<<"T", "s">>)>>, SliceOf(tString), Tags(jN, sIndexFulltext))
dDesc == Decl(<<(<<"D", "e", "s", "c">>)>>, tString, Tags(jN, sIndexH))
dBs ==
    Decl(<<(<<"B", "s">>)>>, SliceOf(Ident(nB)),
         Tags(jN, sPredG \o <<",">> \o kReverse \o <<",">> \o kCount))
dEmbedded == Decl(<<>>, Ident(nB), NoTag)

BodyDecls == {dName, dTitle, dTs, dDesc, dBs, dEmbedded}

\* Go declares a name once: no field of a struct and no type of a package
\* is declared twice
NoRepeat(q) == \A i, j \in 1..Len(q) : i # j => q[i] # q[j]

Bodies == {b \in SeqsUpTo(BodyDecls, MaxBodyFields) : NoRepeat(b)}

\* a struct with a header: the header before, after or around the body
HeaderStructs ==
    UNION {{h \o b, b \o h} \cup
           (IF Len(h) = 2 THEN {<<h[1]>> \o b \o <<h[2]>>} ELSE {}) :
           h \in Headers, b \in Bodies}

\* a struct of one field, for every field declaration: a field is resolved
\* without regard to the fields around it
WideStructs == {<<d>> : d \in FieldDecls}

StructInputs == HeaderStructs \cup WideStructs

\* the Pass-1 name set the struct A is parsed against
StructNameSets == {{nA, nB}, {nA}}

\* ----------------------------------------------------- inputs: packages

nH == <<"H">>
nK == <<"K">>
nS == <<"S">>
nM == <<"M">>
nLower == <<"l">>
jB == <<"b">>
jTildeB == <<"~", "b">>

TypeSpec(name, isStruct, fieldList) ==
    [isTypeSpec |-> TRUE, name |-> name, isStruct |-> isStruct,
     fields |-> fieldList]
TypeDecl(specs) == [isGen |-> TRUE, tok |-> "type", specs |-> specs]

\* type A struct { UID; DType; Name (fulltext); Bs []B  predicate=b,reverse,count }
declA ==
    TypeDecl(<<TypeSpec(nA, TRUE,
        <<dUID, dDType, dName,
          Decl(<<(<<"B", "s">>)>>, SliceOf(Ident(nB)),
               Tags(<<"b", "s">>,
                    kPredicateEq \o jB \o <<",">> \o kReverse \o <<",">> \o kCount))>>)>>)

\* type B struct { UID; DType; Name (fulltext); As []A  predicate=~b reverse }
declB ==
    TypeDecl(<<TypeSpec(nB, TRUE,
        <<dUID, dDType, dName,
          Decl(<<(<<"A", "s">>)>>, SliceOf(Ident(nA)),
               Tags(<<"a", "s">>,
                    kPredicateEq \o jTildeB \o <<" ">> \o kReverse))>>)>>)

\* type H struct { B; Desc string }: a helper, neither UID nor DType
declH == TypeDecl(<<TypeSpec(nH, TRUE, <<dEmbedded, dDesc>>)>>)

\* type S struct: edges to itself, to the helper, to an entity, and fields
\* whose element is a non-struct type, an undeclared type, an unexported
\* struct, a struct that is no slice, a slice of pointers; the tag of Xs is
\* made of tokens parseDgraphTag does not recognize, and UID carries a
\* fulltext index
declS ==
    TypeDecl(<<TypeSpec(nS, TRUE,
        <<dDType, dUIDFulltext,
          Decl(<<(<<"S", "s">>)>>, SliceOf(Ident(nS)), NoTag),
          Decl(<<(<<"H", "s">>)>>, SliceOf(Ident(nH)), NoTag),
          Decl(<<(<<"B", "s">>)>>, SliceOf(Ident(nB)), NoTag),
          Decl(<<(<<"K", "s">>)>>, SliceOf(Ident(nK)), NoTag),
          Decl(<<(<<"X", "s">>)>>, SliceOf(Ident(nX)),
               Tags(kEmpty, sH \o <<" ">> \o sCountEq1)),
          Decl(<<(<<"L", "s">>)>>, SliceOf(Ident(nLower)), NoTag),
          Decl(<<(<<"R">>)>>, Ident(nH), NoTag),
          Decl(<<(<<"P", "s">>)>>, SliceOf(Star(Ident(nH))), NoTag)>>)>>)

\* type M struct { ID, UID string; DType []string }
declM == TypeDecl(<<TypeSpec(nM, TRUE, <<dIDUID, dDType>>)>>)

\* type ( K int; l struct { UID; DType } ): a non-struct type and an
\* unexported struct in one declaration
declKl ==
    TypeDecl(<<TypeSpec(nK, FALSE, <<>>),
               TypeSpec(nLower, TRUE, <<dUID, dDType>>)>>)

\* a function declaration, and a var declaration whose spec is a ValueSpec
declFunc == [isGen |-> FALSE, tok |-> "func", specs |-> <<>>]
declVar ==
    [isGen |-> TRUE, tok |-> "var",
     specs |-> <<[isTypeSpec |-> FALSE, name |-> nX, isStruct |-> FALSE,
                  fields |-> <<>>]>>]

LibDecls == {declA, declB, declH, declS, declM, declKl, declFunc, declVar}

DeclSeqs == {q \in SeqsUpTo(LibDecls, MaxDecls) : NoRepeat(q)}

\* the files of a package: all declarations in one file, or cut in two
FileMaps ==
    UNION {{("a.go" :> q)} \cup
           {("a.go" :> SubSeq(q, 1, k)) @@ ("b.go" :> SubSeq(q, k + 1, Len(q))) :
            k \in 0..(Len(q) - 1)} :
           q \in DeclSeqs}

nPkg == <<"m">>
nPkgTest == nPkg \o kTestSuffix
nPkgOther == <<"n">>
EmptyMap == [x \in {} |-> <<>>]

\* what parser.ParseDir returns: the packages of the directory by name
PkgMaps ==
    {EmptyMap, (nPkgTest :> ("a.go" :> <<declA>>))}
    \cup {(nPkg :> fm) : fm \in FileMaps}
    \cup {(nPkg :> ("a.go" :> <<declA, declB>>)) @@ (nPkgTest :> ("b.go" :> <<declH>>)),
          (nPkg :> ("a.go" :> <<declA>>)) @@ (nPkgOther :> ("a.go" :> <<declB>>))}

\* what parser.ParseDir returns with an error: nothing, or what it had parsed
DirErrMaps == {EmptyMap, (nPkg :> ("a.go" :> <<declA>>))}

\* ------------------------------------------------------------------ state

VARIABLES
    pc,          \* the position of the running function
    tag,         \* parseDgraphTag: the tag argument
    field,       \* the model.Field being filled
    directives,  \* parseDgraphTag: strings.Fields(tag)
    di,          \* index of the current directive
    tokens,      \* strings.Split(directive, ",")
    ti,          \* index of the current subtoken
    inIndex,     \* the index-mode flag of the current directive
    sname,       \* parseStruct: the name argument
    sdecls,      \* parseStruct: st.Fields.List
    structNames, \* the set of exported struct names of Pass 1
    fi,          \* index of the current field declaration
    fields,      \* parseStruct: the fields resolved so far
    hasUID,
    hasDType,
    entity,      \* parseStruct: the returned Entity
    isEntity,    \* parseStruct: the returned bool
    dirErr,      \* Parse: parser.ParseDir fails
    pkgs,        \* Parse: the map parser.ParseDir returns
    pkgName,
    files,       \* Parse: pkgAST.Files
    scan1,       \* the files collectStructNames has still to range over
    scan2,       \* the files the second pass has still to range over
    curFile,     \* the file of the second pass, "" between files
    dj,          \* index of the current declaration of curFile
    entities,    \* Parse: the entities appended so far
    result,      \* Parse: the returned (*model.Package, error)
    par          \* the runs of parseStruct side by side, by type name

tagVars == <<tag, directives, di, tokens, ti, inIndex>>
structVars ==
    <<sname, sdecls, structNames, fi, fields, hasUID, hasDType, entity, isEntity>>
parseVars ==
    <<dirErr, pkgs, pkgName, files, scan1, scan2, curFile, dj, entities, result>>
vars == <<pc, field, tagVars, structVars, parseVars, par>>

\* the variables of a function that is not running
TagIdle ==
    /\ tag = kEmpty
    /\ directives = <<>>
    /\ di = 0
    /\ tokens = <<>>
    /\ ti = 0
    /\ inIndex = FALSE

StructIdle ==
    /\ sname = kEmpty
    /\ sdecls = <<>>
    /\ structNames = {}
    /\ fi = 0
    /\ fields = <<>>
    /\ hasUID = FALSE
    /\ hasDType = FALSE
    /\ entity = ZeroEntity
    /\ isEntity = FALSE

ParseIdle ==
    /\ dirErr = FALSE
    /\ pkgs = EmptyMap
    /\ pkgName = kEmpty
    /\ files = EmptyMap
    /\ scan1 = {}
    /\ scan2 = {}
    /\ curFile = ""
    /\ dj = 0
    /\ entities = <<>>
    /\ result = NoResult

\* no parseStruct runs beside another
ParIdle == par = EmptyMap

\* ------------------------------------- parseDgraphTag, subtoken by subtoken

curTok == TrimSpace(tokens[ti])

\* line 250: directives := strings.Fields(tag)
TagSplit ==
    /\ pc = "tag_start"
    /\ directives' = Fields(tag)
    /\ di' = 1
    /\ pc' = "tag_directive"
    /\ UNCHANGED <<par, tag, field, tokens, ti, inIndex, structVars, parseVars>>

\* lines 252-254: the next directive is split on commas
DirectiveBegin ==
    /\ pc = "tag_directive"
    /\ di <= Len(directives)
    /\ tokens' = Split(directives[di], ",")
    /\ ti' = 1
    /\ inIndex' = directiveStart(field, inIndex).inIndex
    /\ pc' = "tag_token"
    /\ UNCHANGED <<par, tag, field, directives, di, structVars, parseVars>>

\* the outer loop is exhausted: parseDgraphTag returns
TagReturn ==
    /\ pc = "tag_directive"
    /\ di > Len(directives)
    /\ pc' = "tag_done"
    /\ UNCHANGED <<par, field, tagVars, structVars, parseVars>>

\* lines 256-295: the loop body on subtoken ti, then the loop heads
TokBody(kind) ==
    /\ pc = "tag_token"
    /\ TokKind(curTok) = kind
    /\ LET s == tokStep([field |-> field, inIndex |-> inIndex], tokens[ti])
       IN  /\ field' = s.field
           /\ inIndex' = s.inIndex
    /\ IF ti < Len(tokens)
       THEN /\ ti' = ti + 1
            /\ UNCHANGED <<par, pc, di>>
       ELSE /\ ti' = ti
            /\ di' = di + 1
            /\ pc' = "tag_directive"
    /\ UNCHANGED <<par, tag, directives, tokens, structVars, parseVars>>

TokEmpty == TokBody("empty")
TokPredicate == TokBody("predicate")
TokIndex == TokBody("index")
TokType == TokBody("type")
TokReverse == TokBody("reverse")
TokCount == TokBody("count")
TokUpsert == TokBody("upsert")
TokDefault == TokBody("default")

InitTag ==
    /\ pc = "tag_start"
    /\ tag \in TagInputs
    /\ field = ZeroField
    /\ directives = <<>>
    /\ di = 0
    /\ tokens = <<>>
    /\ ti = 0
    /\ inIndex = FALSE
    /\ StructIdle
    /\ ParseIdle
    /\ ParIdle

NextTag ==
    \/ TagSplit
    \/ DirectiveBegin
    \/ TagReturn
    \/ TokEmpty
    \/ TokPredicate
    \/ TokIndex
    \/ TokType
    \/ TokReverse
    \/ TokCount
    \/ TokUpsert
    \/ TokDefault

SpecTag == InitTag /\ [][NextTag]_vars

\* the stepwise run and the function agree on the result
TagRunMatchesFunction ==
    pc = "tag_done" => field = parseDgraphTag(tag, ZeroField)

\* ------------------------------------------- parseStruct, field by field

curDecl == sdecls[fi]

\* lines 117-123: continue
FieldSkip ==
    /\ pc = "struct_field"
    /\ fi <= Len(sdecls)
    /\ skipsField(curDecl)
    /\ fi' = fi + 1
    /\ UNCHANGED <<par, pc, field, tagVars, sname, sdecls, structNames, fields,
                   hasUID, hasDType, entity, isEntity, parseVars>>

\* lines 125-151: the Field is created and its struct tags are parsed
FieldTags ==
    /\ pc = "struct_field"
    /\ fi <= Len(sdecls)
    /\ ~skipsField(curDecl)
    /\ field' = fieldFromTags(curDecl)
    /\ pc' = "struct_resolve"
    /\ UNCHANGED <<par, tagVars, structVars, parseVars>>

\* lines 153-182: UID, DType, predicate, edge and reverse; the append
FieldResolve ==
    /\ pc = "struct_resolve"
    /\ LET ps == fieldStep([fields |-> fields, hasUID |-> hasUID,
                            hasDType |-> hasDType], curDecl, structNames)
       IN  /\ fields' = ps.fields
           /\ hasUID' = ps.hasUID
           /\ hasDType' = ps.hasDType
           /\ field' = ps.fields[Len(ps.fields)]
    /\ fi' = fi + 1
    /\ pc' = "struct_field"
    /\ UNCHANGED <<par, tagVars, sname, sdecls, structNames, entity, isEntity, parseVars>>

\* lines 185-187: not an entity
StructReject ==
    /\ pc = "struct_field"
    /\ fi > Len(sdecls)
    /\ ~hasUID \/ ~hasDType
    /\ entity' = ZeroEntity
    /\ isEntity' = FALSE
    /\ pc' = "struct_done"
    /\ UNCHANGED <<par, field, tagVars, sname, sdecls, structNames, fi, fields,
                   hasUID, hasDType, parseVars>>

\* lines 189-192: the Entity is assembled
StructAssemble ==
    /\ pc = "struct_field"
    /\ fi > Len(sdecls)
    /\ hasUID /\ hasDType
    /\ entity' = [ZeroEntity EXCEPT !.Name = sname, !.Fields = fields]
    /\ pc' = "struct_infer"
    /\ UNCHANGED <<par, field, tagVars, sname, sdecls, structNames, fi, fields,
                   hasUID, hasDType, isEntity, parseVars>>

\* lines 195-197: applyInference, and the return
StructInfer ==
    /\ pc = "struct_infer"
    /\ entity' = applyInference(entity)
    /\ isEntity' = TRUE
    /\ pc' = "struct_done"
    /\ UNCHANGED <<par, field, tagVars, sname, sdecls, structNames, fi, fields,
                   hasUID, hasDType, parseVars>>

InitStruct ==
    /\ pc = "struct_field"
    /\ sname = nA
    /\ sdecls \in StructInputs
    /\ structNames \in StructNameSets
    /\ fi = 1
    /\ fields = <<>>
    /\ hasUID = FALSE
    /\ hasDType = FALSE
    /\ entity = ZeroEntity
    /\ isEntity = FALSE
    /\ field = ZeroField
    /\ TagIdle
    /\ ParseIdle
    /\ ParIdle

NextStruct ==
    \/ FieldSkip
    \/ FieldTags
    \/ FieldResolve
    \/ StructReject
    \/ StructAssemble
    \/ StructInfer

SpecStruct == InitStruct /\ [][NextStruct]_vars

\* the stepwise run and the function agree on the result
StructRunMatchesFunction ==
    pc = "struct_done" =>
        parseStruct(sname, sdecls, structNames) =
            [entity |-> entity, isEntity |-> isEntity]

\* ------------------------------------------------------------------ Parse

structIdleVars == <<sname, sdecls, fi, fields, hasUID, hasDType, entity, isEntity>>

\* a failure that hands back a Package with the error
ParseFailsPartial(why) ==
    /\ result' = [pkg |-> [isNil |-> FALSE, Name |-> pkgName,
                           Entities |-> entities],
                  err |-> why]
    /\ pc' = "parse_done"
    /\ UNCHANGED <<par, field, tagVars, structVars, dirErr, pkgs, pkgName, files,
                   scan1, scan2, curFile, dj, entities>>

\* return nil, fmt.Errorf(...)
ParseFails(why) ==
    /\ result' = [pkg |-> NoPackage, err |-> why]
    /\ pc' = "parse_done"
    /\ UNCHANGED <<par, field, tagVars, structVars, dirErr, pkgs, pkgName, files,
                   scan1, scan2, curFile, dj, entities>>

\* lines 21-24: parser.ParseDir returns an error
ParseDirError ==
    /\ pc = "parse_start"
    /\ dirErr
    /\ ParseFails("parsing package")

\* lines 26-28
ParseNoPackages ==
    /\ pc = "parse_start"
    /\ ~dirErr
    /\ DOMAIN pkgs = {}
    /\ ParseFails("no Go packages found")

\* lines 33-43: the loop ranged over only _test packages
ParseNoNonTest ==
    /\ pc = "parse_start"
    /\ ~dirErr
    /\ DOMAIN pkgs # {}
    /\ \A name \in DOMAIN pkgs : HasSuffix(name, kTestSuffix)
    /\ ParseFails("no non-test package found")

\* lines 33-40: the first non-test package the range over the map meets
ParseSelect ==
    /\ pc = "parse_start"
    /\ ~dirErr
    /\ \E name \in DOMAIN pkgs :
          /\ ~HasSuffix(name, kTestSuffix)
          /\ pkgName' = name
          /\ files' = pkgs[name]
          /\ scan1' = DOMAIN pkgs[name]
    /\ pc' = "parse_collect"
    /\ UNCHANGED <<par, field, tagVars, structVars, dirErr, pkgs, scan2, curFile,
                   dj, entities, result>>

\* lines 86-104: collectStructNames on the next file of the range
CollectFile ==
    /\ pc = "parse_collect"
    /\ \E f \in scan1 :
          /\ structNames' = structNames \cup collectDecls(files[f])
          /\ scan1' = scan1 \ {f}
    /\ UNCHANGED <<par, pc, field, tagVars, structIdleVars, dirErr, pkgs, pkgName,
                   files, scan2, curFile, dj, entities, result>>

\* a variant in which the second pass begins before every file is scanned
CollectReturnEarly ==
    /\ pc = "parse_collect"
    /\ scan2' = DOMAIN files
    /\ pc' = "parse_resolve"
    /\ UNCHANGED <<par, field, tagVars, structVars, dirErr, pkgs, pkgName, files,
                   scan1, curFile, dj, entities, result>>

\* lines 105 and 46: collectStructNames returns, the second pass begins
CollectReturn ==
    /\ pc = "parse_collect"
    /\ scan1 = {}
    /\ scan2' = DOMAIN files
    /\ pc' = "parse_resolve"
    /\ UNCHANGED <<par, field, tagVars, structVars, dirErr, pkgs, pkgName, files,
                   scan1, curFile, dj, entities, result>>

fileExhausted == IF curFile = "" THEN TRUE ELSE dj > Len(files[curFile])

\* line 50: the range over the files moves to its next file
ResolveNextFile ==
    /\ pc = "parse_resolve"
    /\ fileExhausted
    /\ \E f \in scan2 :
          /\ curFile' = f
          /\ scan2' = scan2 \ {f}
    /\ dj' = 1
    /\ UNCHANGED <<par, pc, field, tagVars, structVars, dirErr, pkgs, pkgName,
                   files, scan1, entities, result>>

\* lines 51-74: one declaration of the file
ResolveDecl ==
    /\ pc = "parse_resolve"
    /\ ~fileExhausted
    /\ entities' = entities \o
          declEntities(files[curFile][dj],
                       passTwoNames(structNames, files[curFile], dj))
    /\ dj' = dj + 1
    /\ UNCHANGED <<par, pc, field, tagVars, structVars, dirErr, pkgs, pkgName,
                   files, scan1, scan2, curFile, result>>

\* lines 77-80
ParseReturn ==
    /\ pc = "parse_resolve"
    /\ fileExhausted
    /\ scan2 = {}
    /\ result' = [pkg |-> [isNil |-> FALSE, Name |-> pkgName,
                           Entities |-> entities],
                  err |-> "nil"]
    /\ pc' = "parse_done"
    /\ UNCHANGED <<par, field, tagVars, structVars, dirErr, pkgs, pkgName, files,
                   scan1, scan2, curFile, dj, entities>>

Init ==
    /\ pc = "parse_start"
    /\ \/ dirErr = TRUE /\ pkgs \in DirErrMaps
       \/ dirErr = FALSE /\ pkgs \in PkgMaps
    /\ pkgName = kEmpty
    /\ files = EmptyMap
    /\ scan1 = {}
    /\ scan2 = {}
    /\ curFile = ""
    /\ dj = 0
    /\ entities = <<>>
    /\ result = NoResult
    /\ field = ZeroField
    /\ TagIdle
    /\ StructIdle
    /\ ParIdle

Next ==
    \/ ParseDirError
    \/ ParseNoPackages
    \/ ParseNoNonTest
    \/ ParseSelect
    \/ CollectFile
    \/ CollectReturn
    \/ ResolveNextFile
    \/ ResolveDecl
    \/ ParseReturn

Spec == Init /\ [][Next]_vars

\* ------------------------------- the second pass, one parseStruct per type

\* the type specs Parse hands to parseStruct (lines 52-67): the exported
\* struct types of the type declarations
RECURSIVE resolvableSpecs(_)
resolvableSpecs(decls) ==
    IF decls = <<>> THEN {}
    ELSE (IF isTypeDecl(Head(decls))
          THEN {Head(decls).specs[k] : k \in
                   {k \in 1..Len(Head(decls).specs) :
                       /\ Head(decls).specs[k].isTypeSpec
                       /\ Head(decls).specs[k].isStruct
                       /\ IsExported(Head(decls).specs[k].name)}}
          ELSE {})
         \cup resolvableSpecs(Tail(decls))

\* the locals of one call of parseStruct, at its entry (lines 111-114)
parStart(sp) ==
    [pc |-> "struct_field", decls |-> sp.fields, fi |-> 1, fields |-> <<>>,
     hasUID |-> FALSE, hasDType |-> FALSE, field |-> ZeroField,
     entity |-> ZeroEntity, isEntity |-> FALSE]

parLoop(p) == [fields |-> p.fields, hasUID |-> p.hasUID, hasDType |-> p.hasDType]

parVars == <<pc, field, tagVars, structVars, parseVars>>

\* lines 117-123, in the run for type n
ParFieldSkip ==
    \E n \in DOMAIN par :
        LET p == par[n]
        IN  /\ p.pc = "struct_field"
            /\ p.fi <= Len(p.decls)
            /\ skipsField(p.decls[p.fi])
            /\ par' = [par EXCEPT ![n].fi = p.fi + 1]
            /\ UNCHANGED parVars

\* lines 125-151
ParFieldTags ==
    \E n \in DOMAIN par :
        LET p == par[n]
        IN  /\ p.pc = "struct_field"
            /\ p.fi <= Len(p.decls)
            /\ ~skipsField(p.decls[p.fi])
            /\ par' = [par EXCEPT ![n].field = fieldFromTags(p.decls[p.fi]),
                                  ![n].pc = "struct_resolve"]
            /\ UNCHANGED parVars

\* a variant in which hasUID and hasDType are variables of the package,
\* written by every run
ParFieldResolveShared ==
    \E n \in DOMAIN par :
        LET p == par[n]
            ps == fieldStep(parLoop(p), p.decls[p.fi], structNames)
        IN  /\ p.pc = "struct_resolve"
            /\ par' = [m \in DOMAIN par |->
                          IF m = n
                          THEN [p EXCEPT !.fields = ps.fields,
                                         !.hasUID = ps.hasUID,
                                         !.hasDType = ps.hasDType,
                                         !.field = ps.fields[Len(ps.fields)],
                                         !.fi = p.fi + 1,
                                         !.pc = "struct_field"]
                          ELSE [par[m] EXCEPT !.hasUID = ps.hasUID,
                                              !.hasDType = ps.hasDType]]
            /\ UNCHANGED parVars

\* lines 153-182
ParFieldResolve ==
    \E n \in DOMAIN par :
        LET p == par[n]
            ps == fieldStep(parLoop(p), p.decls[p.fi], structNames)
        IN  /\ p.pc = "struct_resolve"
            /\ par' = [par EXCEPT ![n].fields = ps.fields,
                                  ![n].hasUID = ps.hasUID,
                                  ![n].hasDType = ps.hasDType,
                                  ![n].field = ps.fields[Len(ps.fields)],
                                  ![n].fi = p.fi + 1,
                                  ![n].pc = "struct_field"]
            /\ UNCHANGED parVars

\* lines 185-187
ParReject ==
    \E n \in DOMAIN par :
        LET p == par[n]
        IN  /\ p.pc = "struct_field"
            /\ p.fi > Len(p.decls)
            /\ ~p.hasUID \/ ~p.hasDType
            /\ par' = [par EXCEPT ![n].entity = ZeroEntity,
                                  ![n].isEntity = FALSE,
                                  ![n].pc = "struct_done"]
            /\ UNCHANGED parVars

\* lines 189-192
ParAssemble ==
    \E n \in DOMAIN par :
        LET p == par[n]
        IN  /\ p.pc = "struct_field"
            /\ p.fi > Len(p.decls)
            /\ p.hasUID /\ p.hasDType
            /\ par' = [par EXCEPT ![n].entity =
                                      [ZeroEntity EXCEPT !.Name = n,
                                                         !.Fields = p.fields],
                                  ![n].pc = "struct_infer"]
            /\ UNCHANGED parVars

\* lines 195-197
ParInfer ==
    \E n \in DOMAIN par :
        LET p == par[n]
        IN  /\ p.pc = "struct_infer"
            /\ par' = [par EXCEPT ![n].entity = applyInference(p.entity),
                                  ![n].isEntity = TRUE,
                                  ![n].pc = "struct_done"]
            /\ UNCHANGED parVars

\* Pass 1 is over (line 46): the name set is complete, and every exported
\* struct type of the package has its own run of parseStruct
InitPar ==
    /\ pc = "parse_resolve"
    /\ \E q \in DeclSeqs :
          /\ structNames = collectDecls(q)
          /\ par = [n \in {sp.name : sp \in resolvableSpecs(q)} |->
                       parStart(CHOOSE sp \in resolvableSpecs(q) : sp.name = n)]
    /\ field = ZeroField
    /\ TagIdle
    /\ sname = kEmpty
    /\ sdecls = <<>>
    /\ fi = 0
    /\ fields = <<>>
    /\ hasUID = FALSE
    /\ hasDType = FALSE
    /\ entity = ZeroEntity
    /\ isEntity = FALSE
    /\ ParseIdle

NextPar ==
    \/ ParFieldSkip
    \/ ParFieldTags
    \/ ParFieldResolve
    \/ ParReject
    \/ ParAssemble
    \/ ParInfer

SpecPar == InitPar /\ [][NextPar]_vars

\* ================================================================ claims

IsPrefixOf(a, b) == Len(a) <= Len(b) /\ SubSeq(b, 1, Len(a)) = a

HasChar(str, c) == \E i \in 1..Len(str) : str[i] = c

\* ------------------------------------------------------------------- C8
\* C8: parseDgraphTag appends index values to Field.Indexes in the order
\* they are met in the tag, across all directive tokens: every step keeps
\* the Indexes it found as a prefix and adds at most one entry, and an
\* index=<v> subtoken appends exactly v, also when v is already there.
C8_IndexesAppendInOrder ==
    [][/\ IsPrefixOf(field.Indexes, field'.Indexes)
       /\ Len(field'.Indexes) <= Len(field.Indexes) + 1
       /\ (pc = "tag_token" /\ HasPrefix(tokens[ti], kIndexEq)) =>
             field'.Indexes =
                 Append(field.Indexes, SliceFrom(tokens[ti], Len(kIndexEq)))]_vars

\* "index=h index=h" has been parsed: the value named twice is there twice
C8_Witness ==
    /\ pc = "tag_done"
    /\ tag = sIndexH \o <<" ">> \o sIndexH
    /\ field.Indexes = <<sH, sH>>

\* ------------------------------------------------------------------- C9
\* the subtokens that clear the index-mode flag
ClearsIndexMode(tok) ==
    TokKind(tok) \in {"predicate", "type", "reverse", "count", "upsert"}

\* a bare subtoken: no keyword and no "="
IsBare(tok) == TokKind(tok) = "default" /\ ~HasChar(tok, "=")

\* subtoken j of the directive follows an index= subtoken of the same
\* directive with no predicate=, type= or flag subtoken in between
FollowsIndex(toks, j) ==
    \E k \in 1..(j - 1) :
        /\ HasPrefix(toks[k], kIndexEq)
        /\ \A m \in (k + 1)..(j - 1) : ~ClearsIndexMode(toks[m])

\* C9: the index-mode flag is false when a directive token begins and after
\* predicate=, type=, reverse, count and upsert; a bare subtoken is appended
\* to Indexes if and only if it follows an index= subtoken of the same
\* directive token with none of those in between, and otherwise leaves the
\* Field as it was; a bare word after a space is not a continuation.
C9_IndexModePerDirective ==
    [][/\ (pc = "tag_directive" /\ pc' = "tag_token") => ~inIndex'
       /\ (pc = "tag_token" /\ ClearsIndexMode(curTok)) => ~inIndex'
       /\ (pc = "tag_token" /\ IsBare(curTok)) =>
             IF FollowsIndex(tokens, ti)
             THEN field'.Indexes = Append(field.Indexes, curTok)
             ELSE field' = field
       /\ (pc' = "tag_done" /\ tag = sIndexH \o <<" ">> \o sH) =>
             field'.Indexes = <<sH>>
       /\ (pc' = "tag_done" /\ tag = sIndexH \o <<",">> \o sH) =>
             field'.Indexes = <<sH, sH>>]_vars

\* "index=h,h h" has been parsed: the h after the comma was appended, the h
\* after the space was not
C9_Witness ==
    /\ pc = "tag_done"
    /\ tag = sIndexH \o <<",">> \o sH \o <<" ">> \o sH
    /\ field.Indexes = <<sH, sH>>

\* ------------------------------------------------------------------ C10
\* a subtoken with "=" whose key is none of predicate, index, type
IsUnknownKeyValue(tok) == TokKind(tok) = "default" /\ HasChar(tok, "=")

\* C10: a subtoken that contains "=" but whose key is none of predicate,
\* index, type is dropped: it changes no attribute of the Field, also after
\* an index= subtoken of the same directive token.
C10_UnknownKeyValueDropped ==
    [][(pc = "tag_token" /\ IsUnknownKeyValue(curTok)) => field' = field]_vars

\* --------------------------------------- a tag read off its characters

IsDelim(c) == IsSpace(c) \/ c = ","

\* the places <<a, b>> of the subtokens of a tag: the maximal runs of
\* characters that are neither white space nor a comma
SubtokenSpans(t) ==
    LET starts == {a \in 1..Len(t) :
                      ~IsDelim(t[a]) /\ (a = 1 \/ IsDelim(t[a - 1]))}
        ends == {b \in 1..Len(t) :
                    ~IsDelim(t[b]) /\ (b = Len(t) \/ IsDelim(t[b + 1]))}
    IN  {<<a, CHOOSE b \in ends : b >= a /\ \A c \in ends : c >= a => b <= c>> :
         a \in starts}

SpanText(t, sp) == SubSeq(t, sp[1], sp[2])

HasReverseFlag(t) == \E sp \in SubtokenSpans(t) : SpanText(t, sp) = kReverse

PredicateSpans(t) ==
    {sp \in SubtokenSpans(t) : HasPrefix(SpanText(t, sp), kPredicateEq)}

SuppliesPredicate(t) == PredicateSpans(t) # {}

\* the value of the last predicate= subtoken of the tag
LastPredicateValue(t) ==
    LET last == CHOOSE sp \in PredicateSpans(t) :
                    \A o \in PredicateSpans(t) : o[1] <= sp[1]
    IN  SubSeq(t, last[1] + Len(kPredicateEq), last[2])

\* the name part of a json tag: what stands before the first comma
JSONName(json) ==
    LET commas == {i \in 1..Len(json) : json[i] = ","}
    IN  IF commas = {} THEN json
        ELSE SubSeq(json, 1, (CHOOSE i \in commas : \A j \in commas : i <= j) - 1)

\* parseStruct has just appended the Field of declaration fi - 1
JustResolved ==
    /\ pc = "struct_field"
    /\ fi > 1
    /\ Len(sdecls[fi - 1].Names) > 0
    /\ IsExported(sdecls[fi - 1].Names[1])

lastDecl == sdecls[fi - 1]
lastField == fields[Len(fields)]

\* ------------------------------------------------------------------- C4
\* C4 as stated: the Predicate is the value of the predicate= directive when
\* the dgraph tag supplies one, and otherwise the name part of the json tag.
C4_PredicateDirectiveElseJSON ==
    JustResolved =>
        lastField.Predicate =
            IF SuppliesPredicate(lastDecl.Tag.dgraph)
            THEN LastPredicateValue(lastDecl.Tag.dgraph)
            ELSE JSONName(lastDecl.Tag.json)

\* C4 amended: the Predicate is the value of the last predicate= directive
\* of the dgraph tag when there is one and its value is not empty, and
\* otherwise the name part of the json tag (empty when there is none).
C4_NonEmptyDirectiveElseJSON ==
    JustResolved =>
        lastField.Predicate =
            IF /\ SuppliesPredicate(lastDecl.Tag.dgraph)
               /\ LastPredicateValue(lastDecl.Tag.dgraph) # kEmpty
            THEN LastPredicateValue(lastDecl.Tag.dgraph)
            ELSE JSONName(lastDecl.Tag.json)

\* a field with a json name and a predicate= directive of another value
C4_Witness ==
    /\ JustResolved
    /\ lastDecl.Tag.json = jN
    /\ SuppliesPredicate(lastDecl.Tag.dgraph)
    /\ lastField.Predicate = <<"g">>

\* ------------------------------------------------------------------- C5
\* C5: after parseStruct a field's IsReverse is true if and only if its
\* resolved Predicate begins with "~" or its dgraph tag has the reverse flag.
C5_ReverseIffTildeOrFlag ==
    JustResolved =>
        (lastField.IsReverse <=>
            \/ HasPrefix(lastField.Predicate, kTilde)
            \/ HasReverseFlag(lastDecl.Tag.dgraph))

\* the prefix alone: a "~" predicate, no reverse flag, IsReverse set
C5_Witness ==
    /\ JustResolved
    /\ HasPrefix(lastField.Predicate, kTilde)
    /\ ~HasReverseFlag(lastDecl.Tag.dgraph)
    /\ lastField.IsReverse

\* ------------------------------------------------------------------- C6
\* parseDgraphTag run on its own and parseStruct, side by side
InitTagStruct == InitTag \/ InitStruct
NextTagStruct == NextTag \/ NextStruct
SpecTagStruct == InitTagStruct /\ [][NextTagStruct]_vars

\* the last predicate= of the tag has a "~" value and no subtoken is reverse
TildeNoFlag(t) ==
    /\ HasChar(t, "~")
    /\ SuppliesPredicate(t)
    /\ HasPrefix(LastPredicateValue(t), kTilde)
    /\ ~HasReverseFlag(t)

\* C6: for a tag with predicate=~X and no reverse flag parseDgraphTag sets
\* Predicate to "~X" and leaves IsReverse false, run on its own and run by
\* parseStruct; the Field that parseStruct appends has IsReverse true.
C6_TildeOnlyInParseStruct ==
    /\ (pc = "tag_done" /\ TildeNoFlag(tag)) =>
          /\ field.Predicate = LastPredicateValue(tag)
          /\ ~field.IsReverse
    /\ (pc = "struct_resolve" /\ TildeNoFlag(sdecls[fi].Tag.dgraph)) =>
          /\ field.Predicate = LastPredicateValue(sdecls[fi].Tag.dgraph)
          /\ ~field.IsReverse
    /\ (JustResolved /\ TildeNoFlag(lastDecl.Tag.dgraph)) =>
          /\ lastField.Predicate = LastPredicateValue(lastDecl.Tag.dgraph)
          /\ lastField.IsReverse

\* parseStruct has appended a field whose tag is predicate=~g
C6_Witness ==
    /\ JustResolved
    /\ lastDecl.Tag.dgraph = sPredTildeG
    /\ lastField.Predicate = <<"~", "g">>
    /\ lastField.IsReverse

\* ------------------------------------------------------------------- C7
\* a field that makes its entity searchable
Qualifies(f) ==
    /\ ~f.IsUID
    /\ ~f.IsDType
    /\ f.GoType = kString
    /\ \E i \in 1..Len(f.Indexes) : f.Indexes[i] = kFulltext

QualIdx(fs) == {k \in 1..Len(fs) : Qualifies(fs[k])}

FirstQual(fs) == CHOOSE k \in QualIdx(fs) : \A m \in QualIdx(fs) : k <= m

SwapFields(fs, i, j) ==
    [k \in 1..Len(fs) |-> IF k = i THEN fs[j] ELSE IF k = j THEN fs[i] ELSE fs[k]]

\* C7: after applyInference Searchable is true if and only if some field
\* that is neither UID nor DType is a string with "fulltext" in Indexes;
\* SearchField is then the name of the first such field, and with that
\* field and a later such field swapped it is the name of the later one.
C7_SearchableFirstFulltext ==
    (pc = "struct_done" /\ isEntity) =>
        /\ entity.Searchable <=> QualIdx(entity.Fields) # {}
        /\ entity.Searchable =>
              entity.SearchField = entity.Fields[FirstQual(entity.Fields)].Name
        /\ \A j \in QualIdx(entity.Fields) :
              j # FirstQual(entity.Fields) =>
                 LET i == FirstQual(entity.Fields)
                     sw == applyInference(
                              [ZeroEntity EXCEPT
                                 !.Name = entity.Name,
                                 !.Fields = SwapFields(entity.Fields, i, j)])
                 IN  /\ sw.Searchable
                     /\ sw.SearchField = entity.Fields[j].Name
                     /\ entity.Fields[i].Name # entity.Fields[j].Name =>
                           sw.SearchField # entity.SearchField

\* an entity with two such fields of different names: the first one won
C7_Witness ==
    /\ pc = "struct_done"
    /\ isEntity
    /\ \E i, j \in QualIdx(entity.Fields) :
          /\ i < j
          /\ entity.Fields[i].Name # entity.Fields[j].Name
          /\ entity.SearchField = entity.Fields[i].Name
          /\ \A m \in QualIdx(entity.Fields) : i <= m

\* ------------------------------------------ a package read off its files

\* the type specs of the type declarations of the parsed package
TypeSpecsOf(fm) ==
    LET typeDecls(f) ==
            {fm[f][i] : i \in {i \in 1..Len(fm[f]) :
                                  fm[f][i].isGen /\ fm[f][i].tok = "type"}}
        specsOf(d) == {d.specs[k] : k \in 1..Len(d.specs)}
    IN  {sp \in UNION {UNION {specsOf(d) : d \in typeDecls(f)} : f \in DOMAIN fm} :
            sp.isTypeSpec}

\* the exported struct types the package declares, wherever it declares them
ExportedStructs(fm) ==
    {sp \in TypeSpecsOf(fm) : sp.isStruct /\ sp.name[1] \in UpperLetters}

DeclaredStructNames(fm) == {sp.name : sp \in ExportedStructs(fm)}

\* the struct declares a field of that name and type, in any position of a
\* declaration's name list
DeclaresField(sp, name, type) ==
    \E i \in 1..Len(sp.fields) :
        /\ sp.fields[i].Type = type
        /\ \E m \in 1..Len(sp.fields[i].Names) : sp.fields[i].Names[m] = name

\* Parse has returned a Package
Parsed == pc = "parse_done" /\ result.err = "nil"

EntityNames(es) == {es[k].Name : k \in 1..Len(es)}

EntityNamed(es, name) == es[CHOOSE k \in 1..Len(es) : es[k].Name = name]

\* the field declarations that give a Field: a first name that is exported
KeptDecls(fieldList) ==
    SelectSeq(fieldList,
              LAMBDA d : IF Len(d.Names) = 0 THEN FALSE
                         ELSE d.Names[1][1] \in UpperLetters)

\* ------------------------------------------------------------------- C1
\* C1: an exported struct type is in Package.Entities if and only if it has
\* a field named UID of type string and a field named DType of type
\* []string, and Parse returns no error whenever the directory was read and
\* holds a non-test package, whatever types are left out.
C1_EntityIffUIDAndDType ==
    /\ Parsed =>
          \A sp \in ExportedStructs(files) :
              (sp.name \in EntityNames(result.pkg.Entities)) <=>
                  /\ DeclaresField(sp, kUID, tString)
                  /\ DeclaresField(sp, kDType, SliceOf(tString))
    /\ (pc = "parse_done" /\ ~dirErr
          /\ \E n \in DOMAIN pkgs : ~HasSuffix(n, kTestSuffix)) =>
          result.err = "nil"

\* ------------------------------------------------------------------- C2
\* the declared type is a slice whose element is the name of a declared
\* exported struct
IsSliceOfDeclared(type, names) ==
    /\ type.kind = "Array"
    /\ ~type.hasLen
    /\ type.elt.kind = "Ident"
    /\ type.elt.name \in names

\* C2: in every entity a field has IsEdge if and only if its declared type
\* is []T with T an exported struct type declared anywhere in the package,
\* and then EdgeEntity is T (and empty otherwise), whether or not T is
\* itself an entity.
C2_EdgeIffSliceOfDeclaredStruct ==
    Parsed =>
        \A sp \in ExportedStructs(files) :
            sp.name \in EntityNames(result.pkg.Entities) =>
                LET e == EntityNamed(result.pkg.Entities, sp.name)
                    kept == KeptDecls(sp.fields)
                IN  /\ Len(e.Fields) = Len(kept)
                    /\ \A k \in 1..Len(kept) :
                          IF IsSliceOfDeclared(kept[k].Type,
                                               DeclaredStructNames(files))
                          THEN /\ e.Fields[k].IsEdge
                               /\ e.Fields[k].EdgeEntity = kept[k].Type.elt.name
                          ELSE /\ ~e.Fields[k].IsEdge
                               /\ e.Fields[k].EdgeEntity = kEmpty

\* S is an entity with an edge to the helper H, which is no entity
C2_Witness ==
    /\ Parsed
    /\ nS \in EntityNames(result.pkg.Entities)
    /\ nH \notin EntityNames(result.pkg.Entities)
    /\ \E k \in 1..Len(EntityNamed(result.pkg.Entities, nS).Fields) :
          LET f == EntityNamed(result.pkg.Entities, nS).Fields[k]
          IN  f.IsEdge /\ f.EdgeEntity = nH

\* ------------------------------------------------------------------- C3
\* C3: whatever the order of the declarations and their split over files,
\* the Entity of a type is the one parseStruct gives for it against the set
\* of all exported struct names of the package, which no order changes.
C3_EntityIndependentOfOrder ==
    Parsed =>
        \A sp \in ExportedStructs(files) :
            LET r == parseStruct(sp.name, sp.fields, DeclaredStructNames(files))
            IN  /\ r.isEntity <=> sp.name \in EntityNames(result.pkg.Entities)
                /\ r.isEntity =>
                      EntityNamed(result.pkg.Entities, sp.name) = r.entity

\* A before B in one file: the edge of A to the later B is resolved, and so
\* are the edge of B back to A and the edge of S to itself
C3_Witness ==
    /\ Parsed
    /\ \E f \in DOMAIN files :
          \E i, j \in 1..Len(files[f]) :
              i < j /\ files[f][i] = declA /\ files[f][j] = declB
    /\ EntityNamed(result.pkg.Entities, nA).Fields[4].EdgeEntity = nB
    /\ EntityNamed(result.pkg.Entities, nB).Fields[4].EdgeEntity = nA
    /\ nS \in EntityNames(result.pkg.Entities)
    /\ EntityNamed(result.pkg.Entities, nS).Fields[3].EdgeEntity = nS

\* ------------------------------------------------------------------ C11
\* the declared type with every pointer marker taken off
RECURSIVE StripStars(_)
StripStars(type) ==
    IF type.kind = "Star" THEN StripStars(type.x)
    ELSE IF type.kind = "Array"
         THEN [type EXCEPT !.elt = StripStars(type.elt)]
    ELSE IF type.kind = "Map"
         THEN [type EXCEPT !.key = StripStars(type.key),
                           !.value = StripStars(type.value)]
    ELSE type

\* C11: pointer markers are stripped when the type name of a field is
\* derived: *T records T and []*T records []T, so that []*T with T a
\* declared exported struct is an edge with EdgeEntity T.
C11_PointerMarkersStripped ==
    JustResolved =>
        LET bare == StripStars(lastDecl.Type)
        IN  /\ lastField.GoType = typeString(bare)
            /\ IsSliceOfDeclared(bare, structNames) =>
                  /\ lastField.IsEdge
                  /\ lastField.EdgeEntity = bare.elt.name

\* ------------------------------------------------------------------ C12
\* the exported names the field declarations list, every name of every
\* declaration, in declaration order
RECURSIVE ExportedNamesOf(_)
ExportedNamesOf(decls) ==
    IF decls = <<>> THEN <<>>
    ELSE SelectSeq(Head(decls).Names, IsExported) \o ExportedNamesOf(Tail(decls))

RECURSIVE FieldNames(_)
FieldNames(fs) ==
    IF fs = <<>> THEN <<>> ELSE <<Head(fs).Name>> \o FieldNames(Tail(fs))

\* C12: Entity.Fields holds exactly one Field for every exported named field
\* of the struct, in declaration order, every name of a declaration that
\* lists several names included, and none for embedded or unexported fields.
C12_OneFieldPerExportedName ==
    (pc = "struct_done" /\ isEntity) =>
        FieldNames(entity.Fields) = ExportedNamesOf(sdecls)

\* ------------------------------------------------------------------ C13
\* the three structural failures of Parse
StructuralFailure ==
    \/ dirErr
    \/ DOMAIN pkgs = {}
    \/ \A n \in DOMAIN pkgs : HasSuffix(n, kTestSuffix)

\* C13: Parse returns either a Package and a nil error or no Package and an
\* error, never both and never neither; the error outcome is the outcome of
\* exactly the three structural failures (the directory is not read, holds
\* no package, holds only _test packages), whatever tags and types the
\* package holds.
C13_NoPartialResult ==
    pc = "parse_done" =>
        /\ \/ ~result.pkg.isNil /\ result.err = "nil"
           \/ result.pkg = NoPackage /\ result.err \notin {"nil", "unset"}
        /\ (result.err # "nil") <=> StructuralFailure

\* Parse has returned a Package for a package that declares the helper H,
\* which lacks UID and DType, and S, one of whose tags is made of
\* unrecognized tokens
C13_Witness ==
    /\ Parsed
    /\ ~result.pkg.isNil
    /\ nH \in DeclaredStructNames(files)
    /\ nH \notin EntityNames(result.pkg.Entities)
    /\ nS \in EntityNames(result.pkg.Entities)
    /\ EntityNamed(result.pkg.Entities, nS).Fields[7].Indexes = <<>>

\* ------------------------------------------------------------------ C14
nName == <<"N", "a", "m", "e">>

\* C14: for a package that declares the types A and B of the end-to-end
\* example, in either order and in one file or two, Parse yields the
\* entities A and B (and no other when the package declares no other
\* exported struct) with A.Bs an edge to B with IsReverse and HasCount, B.As
\* an edge to A with IsReverse, and both Searchable with SearchField "Name".
C14_EndToEndAB ==
    (Parsed /\ {declA, declB} \subseteq
                   UNION {{files[f][i] : i \in 1..Len(files[f])} : f \in DOMAIN files}) =>
        /\ {nA, nB} \subseteq EntityNames(result.pkg.Entities)
        /\ DeclaredStructNames(files) = {nA, nB} => Len(result.pkg.Entities) = 2
        /\ LET a == EntityNamed(result.pkg.Entities, nA)
               b == EntityNamed(result.pkg.Entities, nB)
               bs == a.Fields[4]
               as == b.Fields[4]
           IN  /\ Len(a.Fields) = 4
               /\ Len(b.Fields) = 4
               /\ bs.Name = <<"B", "s">>
               /\ bs.IsEdge /\ bs.EdgeEntity = nB /\ bs.IsReverse /\ bs.HasCount
               /\ bs.Predicate = jB
               /\ as.Name = <<"A", "s">>
               /\ as.IsEdge /\ as.EdgeEntity = nA /\ as.IsReverse /\ ~as.HasCount
               /\ as.Predicate = jTildeB
               /\ a.Searchable /\ a.SearchField = nName
               /\ b.Searchable /\ b.SearchField = nName

\* B is declared before A, in one file: Parse returned the two entities, B
\* first, with both edges resolved
C14_Witness ==
    /\ Parsed
    /\ \E f \in DOMAIN files : files[f] = <<declB, declA>>
    /\ Len(result.pkg.Entities) = 2
    /\ result.pkg.Entities[1].Name = nB
    /\ result.pkg.Entities[1].Fields[4].EdgeEntity = nA
    /\ result.pkg.Entities[2].Fields[4].EdgeEntity = nB
    /\ result.pkg.Entities[2].Fields[4].HasCount

\* ------------------------------------------------------------------ C15
UIDIdx(fs) == {k \in 1..Len(fs) : fs[k].IsUID}
DTypeIdx(fs) == {k \in 1..Len(fs) : fs[k].IsDType}

AllCommas(t) == [i \in 1..Len(t) |-> IF t[i] = " " THEN "," ELSE t[i]]
AllSpaces(t) == [i \in 1..Len(t) |-> IF t[i] = "," THEN " " ELSE t[i]]

\* every subtoken of the tag is a predicate=, index= or type= or a flag
NoBareSubtoken(t) ==
    \A sp \in SubtokenSpans(t) : TokKind(SpanText(t, sp)) # "default"

\* C16: for a tag made of predicate=, type=, index= subtokens and the
\* reverse, count and upsert flags, joining the subtokens with commas and
\* joining them with spaces give the same Field; so for
\* "predicate=g,reverse,count", "index=h,type=t" and "index=h,upsert" and
\* their space-joined forms.
C16_CommaSpaceSameField ==
    pc = "tag_done" =>
        /\ NoBareSubtoken(tag) =>
              /\ field = parseDgraphTag(AllCommas(tag), ZeroField)
              /\ field = parseDgraphTag(AllSpaces(tag), ZeroField)
        /\ AllCommas(tag) = sPredG \o <<",">> \o kReverse \o <<",">> \o kCount =>
              field = [ZeroField EXCEPT !.Predicate = <<"g">>,
                                        !.IsReverse = TRUE, !.HasCount = TRUE]
        /\ AllCommas(tag) = sIndexH \o <<",">> \o sTypeT =>
              field = [ZeroField EXCEPT !.Indexes = <<sH>>, !.TypeHint = <<"t">>]
        /\ AllCommas(tag) = sIndexH \o <<",">> \o kUpsert =>
              field = [ZeroField EXCEPT !.Indexes = <<sH>>, !.Upsert = TRUE]

\* "predicate=g reverse count" has been parsed
C16_Witness ==
    /\ pc = "tag_done"
    /\ tag = sPredG \o <<" ">> \o kReverse \o <<" ">> \o kCount
    /\ field.Predicate = <<"g">>
    /\ field.IsReverse
    /\ field.HasCount

\* ------------------------------------------------------------------ C17
\* C17: Pass 1 is a barrier. While collectStructNames runs the second pass
\* has done nothing; whenever the second pass is at work every file has been
\* scanned and the name set holds every exported struct name of the
\* package; and no step of the second pass changes the name set.
C17_PassOneBarrier ==
    [][/\ pc \in {"parse_start", "parse_collect"} =>
             /\ entities = <<>>
             /\ curFile = ""
             /\ dj = 0
       /\ pc' = "parse_resolve" =>
             /\ scan1' = {}
             /\ structNames' = DeclaredStructNames(files')
       /\ pc = "parse_resolve" => structNames' = structNames]_vars

\* the second pass is in a.go, which declares A, and has still to reach
\* b.go, which declares B: the edge of A to B is resolved already
C17_Witness ==
    /\ pc = "parse_resolve"
    /\ DOMAIN files = {"a.go", "b.go"}
    /\ files["a.go"] = <<declA>>
    /\ files["b.go"] = <<declB>>
    /\ curFile = "a.go"
    /\ scan2 = {"b.go"}
    /\ Len(entities) = 1
    /\ entities[1].Fields[4].EdgeEntity = nB

\* ------------------------------------------------------------------ C18
\* C18: with the second pass run as one parseStruct per type, their field
\* steps interleaved in any order, a step changes the locals of one run and
\* nothing else, never the Pass-1 name set, and every run that has returned
\* has returned what the sequential parseStruct returns for its type.
C18_ParallelEqualsSequential ==
    [][/\ structNames' = structNames
       /\ Cardinality({n \in DOMAIN par : par'[n] # par[n]}) <= 1
       /\ \A n \in DOMAIN par' :
             par'[n].pc = "struct_done" =>
                 [entity |-> par'[n].entity, isEntity |-> par'[n].isEntity] =
                     parseStruct(n, par'[n].decls, structNames)]_vars

\* the run for A has returned its entity, with the edge to B, while the run
\* for B is in its second field and the run for S in its third
C18_Witness ==
    /\ DOMAIN par = {nA, nB, nS}
    /\ par[nA].pc = "struct_done"
    /\ par[nA].isEntity
    /\ par[nA].entity.Fields[4].EdgeEntity = nB
    /\ par[nB].pc = "struct_resolve"
    /\ par[nB].fi = 2
    /\ par[nS].pc = "struct_field"
    /\ par[nS].fi = 3

\* ------------------------------------------------------------------ C19
TypeSpans(t) ==
    {sp \in SubtokenSpans(t) : HasPrefix(SpanText(t, sp), kTypeEq)}

\* the value of the last type= subtoken of the tag
LastTypeValue(t) ==
    LET last == CHOOSE sp \in TypeSpans(t) : \A o \in TypeSpans(t) : o[1] <= sp[1]
    IN  SubSeq(t, last[1] + Len(kTypeEq), last[2])

\* C19: when parseDgraphTag returns, Predicate is the value of the last
\* predicate= subtoken of the tag and TypeHint the value of the last type=
\* subtoken, in reading order, whether the subtokens stand in one directive
\* token or in several; each is empty when the tag has no such subtoken.
C19_ScalarsLastWriteWins ==
    pc = "tag_done" =>
        /\ field.Predicate =
              IF SuppliesPredicate(tag) THEN LastPredicateValue(tag) ELSE kEmpty
        /\ field.TypeHint =
              IF TypeSpans(tag) # {} THEN LastTypeValue(tag) ELSE kEmpty

\* "type=t type=u" has been parsed: the later value stands
C19_Witness ==
    /\ pc = "tag_done"
    /\ tag = sTypeT \o <<" ">> \o sTypeU
    /\ Cardinality(TypeSpans(tag)) = 2
    /\ field.TypeHint = <<"u">>

\* ------------------------------------------------------------------ C20
\* the json tag has "omitempty" after its first comma
JSONOmitEmpty(json) ==
    /\ Len(JSONName(json)) < Len(json)
    /\ Contains(SubSeq(json, Len(JSONName(json)) + 2, Len(json)), kOmitEmpty)

\* C20: a subtoken changes its own attribute of the Field and no other:
\* predicate= only Predicate, type= only TypeHint, index= and the subtoken
\* taken by the default branch only Indexes, reverse, count and upsert only
\* their boolean, the empty subtoken nothing; and the Field parseStruct
\* hands to parseDgraphTag comes back with its Name, GoType, JSONTag and
\* OmitEmpty as they were set and IsUID, IsDType, IsEdge, EdgeEntity unset.
C20_SubtokenChangesOwnAttribute ==
    [][/\ pc = "tag_token" =>
             LET k == TokKind(curTok)
             IN  /\ k = "empty" => field' = field
                 /\ k = "predicate" =>
                       field' = [field EXCEPT !.Predicate = field'.Predicate]
                 /\ k = "type" =>
                       field' = [field EXCEPT !.TypeHint = field'.TypeHint]
                 /\ k \in {"index", "default"} =>
                       field' = [field EXCEPT !.Indexes = field'.Indexes]
                 /\ k = "reverse" =>
                       field' = [field EXCEPT !.IsReverse = field'.IsReverse]
                 /\ k = "count" =>
                       field' = [field EXCEPT !.HasCount = field'.HasCount]
                 /\ k = "upsert" =>
                       field' = [field EXCEPT !.Upsert = field'.Upsert]
       /\ (pc = "struct_field" /\ pc' = "struct_resolve") =>
             LET d == sdecls[fi]
             IN  /\ field'.Name = d.Names[1]
                 /\ field'.GoType = typeString(d.Type)
                 /\ field'.JSONTag = JSONName(d.Tag.json)
                 /\ field'.OmitEmpty = JSONOmitEmpty(d.Tag.json)
                 /\ ~field'.IsUID
                 /\ ~field'.IsDType
                 /\ ~field'.IsEdge
                 /\ field'.EdgeEntity = kEmpty]_vars

\* "index=h,type=t" has been parsed: the type hint is no index
C20_Witness ==
    /\ pc = "tag_done"
    /\ tag = sIndexH \o <<",">> \o sTypeT
    /\ field.Indexes = <<sH>>
    /\ field.TypeHint = <<"t">>

\* ------------------------------------------------------------------ C21
\* the tag is empty or made of white space and commas only
OnlyDelims(t) == \A i \in 1..Len(t) : IsDelim(t[i])

\* C21: parseDgraphTag leaves the Field as it was when the tag is empty or
\* holds white space and commas only, at every step of the call and for the
\* Field of a parsed struct as the starting Field; and the Field parseStruct
\* appends for a declaration without dgraph tag has empty Indexes, empty
\* TypeHint and false HasCount and Upsert.
C21_EmptyTagNoOp ==
    /\ (pc \in {"tag_start", "tag_directive", "tag_token", "tag_done"}
           /\ OnlyDelims(tag)) =>
          field = ZeroField
    /\ JustResolved =>
          /\ \A t \in {kEmpty, <<" ">>, <<",">>, <<",", " ", ",">>} :
                parseDgraphTag(t, lastField) = lastField
          /\ lastDecl.Tag.dgraph = kEmpty =>
                /\ lastField.Indexes = <<>>
                /\ lastField.TypeHint = kEmpty
                /\ ~lastField.HasCount
                /\ ~lastField.Upsert

\* parseStruct has appended the Field of a declaration without dgraph tag
\* right after a Field that has indexes
C21_Witness ==
    /\ JustResolved
    /\ lastDecl.Tag.present
    /\ lastDecl.Tag.dgraph = kEmpty
    /\ Len(fields) >= 2
    /\ fields[Len(fields) - 1].Indexes # <<>>
    /\ lastField.Indexes = <<>>

\* ------------------------------------------------------------------ C22
\* C22: the Field parseStruct appends has IsUID if and only if it is named
\* UID and declared with the type string, and IsDType if and only if it is
\* named DType and declared with the type []string, whatever its json and
\* dgraph tags hold.
C22_UIDAndDTypeByNameAndType ==
    JustResolved =>
        /\ lastField.IsUID <=>
              (lastDecl.Names[1] = kUID /\ lastDecl.Type = tString)
        /\ lastField.IsDType <=>
              (lastDecl.Names[1] = kDType /\ lastDecl.Type = SliceOf(tString))

\* a field UID string whose dgraph tag gives a predicate and the reverse
\* flag: it is the UID all the same
C22_Witness ==
    /\ JustResolved
    /\ lastDecl.Names[1] = kUID
    /\ lastDecl.Type = tString
    /\ lastDecl.Tag.dgraph = sPredTildeG \o <<" ">> \o kReverse
    /\ lastField.IsUID
    /\ lastField.IsReverse

\* ------------------------------------------------------------------ C23
\* the comma-separated options a json tag lists after its name
JSONOptions(json) ==
    IF Len(JSONName(json)) = Len(json) THEN {}
    ELSE LET opts == Split(SubSeq(json, Len(JSONName(json)) + 2, Len(json)), ",")
         IN  {opts[k] : k \in 1..Len(opts)}

\* C23: JSONTag is the text of the json tag before its first comma, and
\* OmitEmpty is true if and only if one of the comma-separated options
\* after the name is omitempty; without a json tag JSONTag is empty and
\* OmitEmpty false.
C23_JSONNameAndOmitEmpty ==
    JustResolved =>
        /\ lastField.JSONTag = JSONName(lastDecl.Tag.json)
        /\ lastField.OmitEmpty <=> kOmitEmpty \in JSONOptions(lastDecl.Tag.json)
        /\ lastDecl.Tag.json = kEmpty =>
              lastField.JSONTag = kEmpty /\ ~lastField.OmitEmpty

\* ------------------------------------------------------------------ C24
\* the entities a step of Parse appended
AppendedEntities == SubSeq(entities', Len(entities) + 1, Len(entities'))

\* C24: applyInference changes only Searchable and SearchField: every entity
\* Parse appends has the Name of its type and exactly the Fields parseStruct
\* assembled for it (an edge to a type that is no entity included); and once
\* an entity is appended no later step of Parse changes it: the entities so
\* far stay a prefix, and the Package returned holds them as they are.
C24_InferenceFrame ==
    [][/\ IsPrefixOf(entities, entities')
       /\ Len(entities') > Len(entities) =>
             LET d == files[curFile][dj]
             IN  \A k \in 1..Len(AppendedEntities) :
                     \E i \in 1..Len(d.specs) :
                         /\ AppendedEntities[k].Name = d.specs[i].name
                         /\ AppendedEntities[k].Fields =
                                fieldLoop(ZeroLoop, d.specs[i].fields,
                                          structNames).fields
       /\ (result' # result /\ result'.err = "nil") =>
             result'.pkg.Entities = entities]_vars

C24_Witness ==
    /\ Parsed
    /\ Len(result.pkg.Entities) >= 2
    /\ result.pkg.Entities[1].Searchable
    /\ \E k \in 2..Len(result.pkg.Entities) :
           \E i \in 1..Len(result.pkg.Entities[k].Fields) :
               LET f == result.pkg.Entities[k].Fields[i]
               IN  /\ f.IsEdge
                   /\ f.EdgeEntity # result.pkg.Entities[k].Name
                   /\ f.EdgeEntity \notin EntityNames(result.pkg.Entities)

\* ------------------------------------------------------------------ C25
\* C25: in every Package Parse returns, an entity's SearchField is empty
\* if and only if Searchable is false, and when Searchable is true
\* SearchField is the Name of a field of that entity that is a string, has
\* "fulltext" in Indexes and is neither the UID nor the DType field.
C25_SearchFieldNamesQualifyingField ==
    Parsed =>
        \A k \in 1..Len(result.pkg.Entities) :
            LET e == result.pkg.Entities[k]
            IN  /\ e.SearchField = kEmpty <=> ~e.Searchable
                /\ e.Searchable =>
                      \E i \in 1..Len(e.Fields) :
                          /\ e.Fields[i].Name = e.SearchField
                          /\ Qualifies(e.Fields[i])

C25_Witness ==
    /\ Parsed
    /\ \E k, m \in 1..Len(result.pkg.Entities) :
           /\ result.pkg.Entities[k].Searchable
           /\ result.pkg.Entities[k].SearchField # kEmpty
           /\ ~result.pkg.Entities[m].Searchable
           /\ \E i \in 1..Len(result.pkg.Entities[m].Fields) :
                  LET f == result.pkg.Entities[m].Fields[i]
                  IN  f.IsUID /\ hasIndex(f.Indexes, kFulltext)

\* ------------------------------------------------------------------ C26
\* the entities of a sequence of declarations, in declaration order
RECURSIVE EntitiesOfDecls(_, _)
EntitiesOfDecls(decls, names) ==
    IF decls = <<>> THEN <<>>
    ELSE declEntities(Head(decls), names) \o EntitiesOfDecls(Tail(decls), names)

\* the files and the packages of a directory in name order
FilesInOrder == <<"a.go", "b.go">>
PackagesInOrder == <<nPkg, nPkgOther>>

\* the entities of a package with its files taken in name order
RECURSIVE EntitiesInOrder(_, _, _)
EntitiesInOrder(fm, k, names) ==
    IF k > Len(FilesInOrder) THEN <<>>
    ELSE (IF FilesInOrder[k] \in DOMAIN fm
          THEN EntitiesOfDecls(fm[FilesInOrder[k]], names)
          ELSE <<>>) \o EntitiesInOrder(fm, k + 1, names)

\* the one Package the directory stands for: its first non-test package in
\* name order, the entities in the declaration order of its types
DeclOrderPackage(pm) ==
    LET n == PackagesInOrder[CHOOSE k \in 1..Len(PackagesInOrder) :
                 /\ PackagesInOrder[k] \in DOMAIN pm
                 /\ \A m \in 1..(k - 1) : PackagesInOrder[m] \notin DOMAIN pm]
    IN  [isNil |-> FALSE, Name |-> n,
         Entities |-> EntitiesInOrder(pm[n], 1, DeclaredStructNames(pm[n]))]

\* C26: Parse is deterministic: every run on the same directory returns the
\* same Package, with the same Name and the same Entities in the declaration
\* order of the input types, also with the types spread over several files
\* or with more than one non-test package in the directory.
C26_ParseDeterministic ==
    Parsed => result.pkg = DeclOrderPackage(pkgs)

\* what does hold: with one non-test package of one file the Package is the
\* one of the declaration order
C26_SingleFileDeterministic ==
    (/\ Parsed
     /\ Cardinality({n \in DOMAIN pkgs : ~HasSuffix(n, kTestSuffix)}) = 1
     /\ Cardinality(DOMAIN pkgs[result.pkg.Name]) = 1)
        => result.pkg = DeclOrderPackage(pkgs)

\* ------------------------------------------------------------------ C27
\* C27: in every Package Parse returns, for every field: EdgeEntity is
\* non-empty if and only if IsEdge is true, EdgeEntity when set is one of
\* the exported struct names the first pass collected, and no field that is
\* the UID or the DType field is an edge.
C27_EdgeEntityWellFormed ==
    Parsed =>
        \A k \in 1..Len(result.pkg.Entities) :
            \A i \in 1..Len(result.pkg.Entities[k].Fields) :
                LET f == result.pkg.Entities[k].Fields[i]
                IN  /\ f.EdgeEntity # kEmpty <=> f.IsEdge
                    /\ f.EdgeEntity # kEmpty =>
                          /\ f.EdgeEntity \in structNames
                          /\ f.EdgeEntity \in
                                 DeclaredStructNames(pkgs[result.pkg.Name])
                    /\ (f.IsUID \/ f.IsDType) => ~f.IsEdge

C27_Witness ==
    /\ Parsed
    /\ \E k \in 1..Len(result.pkg.Entities) :
           LET fs == result.pkg.Entities[k].Fields
           IN  /\ \E i \in 1..Len(fs) :
                      /\ fs[i].IsEdge
                      /\ fs[i].EdgeEntity \notin EntityNames(result.pkg.Entities)
               /\ \E i \in 1..Len(fs) :
                      /\ HasPrefix(fs[i].GoType, kSlice)
                      /\ ~fs[i].IsDType
                      /\ ~fs[i].IsEdge
                      /\ fs[i].EdgeEntity = kEmpty
               /\ \E i \in 1..Len(fs) : fs[i].IsDType /\ ~fs[i].IsEdge

\* ------------------------------------------------------------------ C28
\* a Field that comes to parseDgraphTag with every flag set and an index
SetField ==
    [ZeroField EXCEPT !.IsReverse = TRUE, !.HasCount = TRUE, !.Upsert = TRUE,
                      !.Indexes = <<sH>>]

\* from f to g no flag is lost and the Indexes of f are a prefix of g's
Monotone(f, g) ==
    /\ f.IsReverse => g.IsReverse
    /\ f.HasCount => g.HasCount
    /\ f.Upsert => g.Upsert
    /\ IsPrefixOf(f.Indexes, g.Indexes)

\* C28: parseDgraphTag is monotone on the Field it is given: after every
\* subtoken each of IsReverse, HasCount and Upsert that was true is still
\* true and the Indexes held before remain an unchanged prefix of Indexes,
\* so that the Field returned keeps the flags and the Indexes it came with.
C28_FlagsAndIndexesMonotone ==
    [][/\ Monotone(field, field')
       /\ pc' = "tag_done" =>
             /\ Monotone(ZeroField, field')
             /\ Monotone(SetField, parseDgraphTag(tag, SetField))]_vars

\* "count,count index=h" has been parsed: the second count and the index
\* left the flag of the first as it was
C28_Witness ==
    /\ pc = "tag_done"
    /\ tag = kCount \o <<",">> \o kCount \o <<" ">> \o sIndexH
    /\ field.HasCount
    /\ field.Indexes = <<sH>>
    /\ parseDgraphTag(tag, SetField).Indexes = <<sH, sH>>

\* ------------------------------------------------------------------ C29
\* the positions of the tag that hold a space
SpaceCuts(t) == {k \in 1..Len(t) : t[k] = " "}

\* parsing t in one call gives what parsing the part before the cut and then
\* the part after it gives
ComposesAt(t, k, f) ==
    parseDgraphTag(t, f) =
        parseDgraphTag(SubSeq(t, k + 1, Len(t)),
                       parseDgraphTag(SubSeq(t, 1, k - 1), f))

\* C29: parseDgraphTag composes over space-joined tags: for tags a and b and
\* a starting Field, parsing a + " " + b in one call gives the same Field as
\* parsing a and then parsing b on the result; the run of the code on
\* a + " " + b ends with that Field too.
C29_ComposesOverSpaces ==
    pc = "tag_done" =>
        \A k \in SpaceCuts(tag) :
            /\ ComposesAt(tag, k, ZeroField)
            /\ ComposesAt(tag, k, SetField)
            /\ field = parseDgraphTag(SubSeq(tag, k + 1, Len(tag)),
                                      parseDgraphTag(SubSeq(tag, 1, k - 1),
                                                     ZeroField))

\* "index=h h,count" has been parsed: the h of the second directive token
\* was not taken for an index, in one call as in two
C29_Witness ==
    /\ pc = "tag_done"
    /\ tag = sIndexH \o <<" ">> \o sH \o <<",">> \o kCount
    /\ field.Indexes = <<sH>>
    /\ field.HasCount
    /\ parseDgraphTag(sH \o <<",">> \o kCount,
                      parseDgraphTag(sIndexH, ZeroField)) = field

=============================================================================
